---- MODULE Spec2Model ----
(***************************************************************************)
(* The wormhole client: wire codec (proto), control session (Client.run,   *)
(* handleConnection, sendRequest), stream dispatcher (onNewStream) and     *)
(* forwarder (handleAccess, forwardStream), as an event-driven state       *)
(* machine.  One action is one event-loop turn: an I/O event together with *)
(* every synchronous handler and promise continuation it triggers.         *)
(*                                                                         *)
(* Bytes are naturals 0..255, buffers are sequences of bytes, strings are  *)
(* sequences of code points (basic plane).                                 *)
(***************************************************************************)
EXTENDS Integers, Sequences, FiniteSets, TLC

(***************************************************************************)
(* Program constants (proto.ts)                                            *)
(***************************************************************************)
VERSION == 16
MAX_PAYLOAD_SIZE == 1048576
MAX_STRING_LENGTH == 4096
HEADER_SIZE == 12
REQUEST_SIZE == 5
RESPONSE_SIZE == 13
FLAG_METRICS == 1

MessageType ==
  [Request |-> 1, Response |-> 2, Access |-> 3, Ack |-> 4,
   Metrics |-> 5, End |-> 6, Error |-> 255]

ProtoType == [HTTP |-> 1, TCP |-> 2]

StatusCode == [OK |-> 1, NameTaken |-> 3, UnsupportedProto |-> 4]

(***************************************************************************)
(* Model bounds                                                            *)
(***************************************************************************)
\* number of inbound (server-opened) streams of a session
MaxStreams == 1

(***************************************************************************)
(* Buffers and integers                                                    *)
(***************************************************************************)
Take(s, n) == SubSeq(s, 1, n)

Drop(s, n) == SubSeq(s, n + 1, Len(s))

IsPrefix(p, s) == Len(p) <= Len(s) /\ Take(s, Len(p)) = p

\* A value that does not fit the three low bytes of a big-endian field is
\* kept as this saturated value: it is above every limit the codec tests.
Saturated == 16777216

\* DataView.setUint32 / setBigUint64 (big-endian): w bytes of n.
\* The model only writes n < 2^24, so the bytes above the low three are 0.
PutBE(n, w) ==
  [i \in 1..w |->
     IF w - i = 0 THEN n % 256
     ELSE IF w - i = 1 THEN (n \div 256) % 256
     ELSE IF w - i = 2 THEN (n \div 65536) % 256
     ELSE 0]

\* DataView.getUint32 / getBigUint64 (big-endian) of the bytes bs.
GetBE(bs) ==
  LET w == Len(bs) IN
  IF \E i \in 1..w : w - i >= 3 /\ bs[i] # 0 THEN Saturated
  ELSE bs[w] + 256 * bs[w - 1] + 65536 * bs[w - 2]

\* x & y, x | y and x & ~y on non-negative integers below 2^31, bit by bit
RECURSIVE BitAnd(_, _)
BitAnd(x, y) ==
  IF x = 0 \/ y = 0 THEN 0
  ELSE (x % 2) * (y % 2) + 2 * BitAnd(x \div 2, y \div 2)

RECURSIVE BitOr(_, _)
BitOr(x, y) ==
  IF x = 0 THEN y
  ELSE IF y = 0 THEN x
  ELSE (IF x % 2 = 1 \/ y % 2 = 1 THEN 1 ELSE 0) + 2 * BitOr(x \div 2, y \div 2)

RECURSIVE BitAndNot(_, _)
BitAndNot(x, y) ==
  IF x = 0 THEN 0
  ELSE (x % 2) * (1 - (y % 2)) + 2 * BitAndNot(x \div 2, y \div 2)

(***************************************************************************)
(* UTF-8 (Buffer.from(str, "utf8"), buf.toString("utf8"),                  *)
(* Buffer.byteLength).  One-, two- and three-byte forms; an ill-formed     *)
(* byte decodes to U+FFFD.                                                 *)
(***************************************************************************)
REPLACEMENT == 65533

Utf8OfCodePoint(c) ==
  IF c < 128 THEN <<c>>
  ELSE IF c < 2048 THEN <<192 + (c \div 64), 128 + (c % 64)>>
  ELSE <<224 + (c \div 4096), 128 + ((c \div 64) % 64), 128 + (c % 64)>>

RECURSIVE Utf8Encode(_)
Utf8Encode(str) ==
  IF str = <<>> THEN <<>>
  ELSE Utf8OfCodePoint(Head(str)) \o Utf8Encode(Tail(str))

IsCont(b) == b >= 128 /\ b <= 191

\* the second byte a three-byte lead accepts
Second3Ok(lead, b) ==
  IF lead = 224 THEN b >= 160 /\ b <= 191
  ELSE IF lead = 237 THEN b >= 128 /\ b <= 159
  ELSE IsCont(b)

RECURSIVE Utf8Decode(_)
Utf8Decode(bs) ==
  IF bs = <<>> THEN <<>>
  ELSE LET b == bs[1] IN
    IF b < 128 THEN <<b>> \o Utf8Decode(Tail(bs))
    ELSE IF b >= 194 /\ b <= 223 THEN
      IF Len(bs) >= 2 /\ IsCont(bs[2])
      THEN <<(b - 192) * 64 + (bs[2] - 128)>> \o Utf8Decode(Drop(bs, 2))
      ELSE <<REPLACEMENT>> \o Utf8Decode(Tail(bs))
    ELSE IF b >= 224 /\ b <= 239 THEN
      IF Len(bs) >= 2 /\ Second3Ok(b, bs[2]) THEN
        IF Len(bs) >= 3 /\ IsCont(bs[3])
        THEN <<(b - 224) * 4096 + (bs[2] - 128) * 64 + (bs[3] - 128)>>
               \o Utf8Decode(Drop(bs, 3))
        ELSE <<REPLACEMENT>> \o Utf8Decode(Drop(bs, 2))
      ELSE <<REPLACEMENT>> \o Utf8Decode(Tail(bs))
    ELSE <<REPLACEMENT>> \o Utf8Decode(Tail(bs))

ByteLength(str) == Len(Utf8Encode(str))

(***************************************************************************)
(* Results of the codec: a value or a thrown Error(message)                *)
(***************************************************************************)
NoHeader == [version |-> 0, type |-> 0, flags |-> 0, length |-> 0, reserved |-> 0]

NoResponse == [status |-> 0, ttlHours |-> 0, domainLength |-> 0, domain |-> <<>>]

(***************************************************************************)
(* Header                                                                  *)
(***************************************************************************)
\* new Header(type, length)
NewHeader(type, length) ==
  [version |-> VERSION, type |-> type, flags |-> 0, length |-> length, reserved |-> 0]

hasFlag(h, flag) == BitAnd(h.flags, flag) # 0

setFlag(h, flag) == [h EXCEPT !.flags = BitOr(h.flags, flag)]

clearFlag_KeepOnly(h, flag) == [h EXCEPT !.flags = BitAnd(h.flags, flag)]

clearFlag(h, flag) == [h EXCEPT !.flags = BitAndNot(h.flags, flag)]

\* the message validateHeader throws, "" when it accepts
validateHeader_Strict(h) ==
  IF h.version # VERSION THEN "invalid version"
  ELSE IF h.length >= MAX_PAYLOAD_SIZE THEN "payload too large"
  ELSE IF h.reserved # 0 THEN "reserved field must be zero"
  ELSE ""

validateHeader(h) ==
  IF h.version # VERSION THEN "invalid version"
  ELSE IF h.length > MAX_PAYLOAD_SIZE THEN "payload too large"
  ELSE IF h.reserved # 0 THEN "reserved field must be zero"
  ELSE ""

\* the 12 bytes the DataView writes, whatever the header
HeaderBytes(h) ==
  <<h.version, h.type, h.flags>> \o PutBE(h.length, 8) \o <<h.reserved>>

serializeHeader(h) ==
  IF validateHeader(h) # ""
  THEN [ok |-> FALSE, err |-> validateHeader(h), bytes |-> <<>>]
  ELSE [ok |-> TRUE, err |-> "", bytes |-> HeaderBytes(h)]

deserializeHeader_NoFlags(buf) ==
  IF Len(buf) < HEADER_SIZE
  THEN [ok |-> FALSE, err |-> "invalid header size", header |-> NoHeader]
  ELSE LET h == [version |-> buf[1], type |-> buf[2], flags |-> 0,
                 length |-> GetBE(SubSeq(buf, 4, 11)), reserved |-> buf[12]]
       IN IF validateHeader(h) # ""
          THEN [ok |-> FALSE, err |-> validateHeader(h), header |-> NoHeader]
          ELSE [ok |-> TRUE, err |-> "", header |-> h]

deserializeHeader(buf) ==
  IF Len(buf) < HEADER_SIZE
  THEN [ok |-> FALSE, err |-> "invalid header size", header |-> NoHeader]
  ELSE LET h == [version |-> buf[1], type |-> buf[2], flags |-> buf[3],
                 length |-> GetBE(SubSeq(buf, 4, 11)), reserved |-> buf[12]]
       IN IF validateHeader(h) # ""
          THEN [ok |-> FALSE, err |-> validateHeader(h), header |-> NoHeader]
          ELSE [ok |-> TRUE, err |-> "", header |-> h]

(***************************************************************************)
(* Request                                                                 *)
(***************************************************************************)
\* new Request(proto, name)
NewRequest(proto, name) ==
  [proto |-> proto, nameLength |-> ByteLength(name), name |-> name]

validateRequest_StringLength(req) ==
  IF req.proto # ProtoType.HTTP /\ req.proto # ProtoType.TCP THEN "invalid protocol"
  ELSE IF Len(req.name) = 0 \/ req.nameLength = 0 THEN "string field cannot be empty"
  ELSE IF req.nameLength # Len(req.name) THEN "invalid length field"
  ELSE IF req.nameLength > MAX_STRING_LENGTH THEN "string exceeds maximum length"
  ELSE ""

validateRequest(req) ==
  IF req.proto # ProtoType.HTTP /\ req.proto # ProtoType.TCP THEN "invalid protocol"
  ELSE IF Len(req.name) = 0 \/ req.nameLength = 0 THEN "string field cannot be empty"
  ELSE IF req.nameLength # ByteLength(req.name) THEN "invalid length field"
  ELSE IF req.nameLength > MAX_STRING_LENGTH THEN "string exceeds maximum length"
  ELSE ""

serializeRequest(req) ==
  IF validateRequest(req) # ""
  THEN [ok |-> FALSE, err |-> validateRequest(req), bytes |-> <<>>]
  ELSE [ok |-> TRUE, err |-> "",
        bytes |-> <<req.proto>> \o PutBE(req.nameLength, 4) \o Utf8Encode(req.name)]

(***************************************************************************)
(* Response                                                                *)
(***************************************************************************)
\* new Response(status, ttlHours, domain)
NewResponse(status, ttlHours, domain) ==
  [status |-> status, ttlHours |-> ttlHours,
   domainLength |-> ByteLength(domain), domain |-> domain]

validateResponse(resp) ==
  IF resp.status # StatusCode.OK /\ resp.status # StatusCode.NameTaken
     /\ resp.status # StatusCode.UnsupportedProto
  THEN "invalid status code"
  ELSE IF resp.status = StatusCode.OK THEN
    IF Len(resp.domain) = 0 \/ resp.domainLength = 0 THEN "string field cannot be empty"
    ELSE IF resp.domainLength # ByteLength(resp.domain) THEN "invalid length field"
    ELSE IF resp.domainLength > MAX_STRING_LENGTH THEN "string exceeds maximum length"
    ELSE ""
  ELSE ""

\* the bytes the DataView writes, whatever the response
ResponseBytes(resp) ==
  <<resp.status>> \o PutBE(resp.ttlHours, 8) \o PutBE(resp.domainLength, 4)
    \o Utf8Encode(resp.domain)

serializeResponse(resp) ==
  IF validateResponse(resp) # ""
  THEN [ok |-> FALSE, err |-> validateResponse(resp), bytes |-> <<>>]
  ELSE [ok |-> TRUE, err |-> "", bytes |-> ResponseBytes(resp)]

deserializeResponse(buf) ==
  IF Len(buf) < RESPONSE_SIZE
  THEN [ok |-> FALSE, err |-> "invalid response size", resp |-> NoResponse]
  ELSE LET status == buf[1]
           ttlHours == GetBE(SubSeq(buf, 2, 9))
           domainLength == GetBE(SubSeq(buf, 10, 13))
       IN IF Len(buf) < RESPONSE_SIZE + domainLength
          THEN [ok |-> FALSE, err |-> "insufficient data", resp |-> NoResponse]
          ELSE LET domain == Utf8Decode(SubSeq(buf, RESPONSE_SIZE + 1,
                                               RESPONSE_SIZE + domainLength))
                   resp == NewResponse(status, ttlHours, domain)
               IN IF validateResponse(resp) # ""
                  THEN [ok |-> FALSE, err |-> validateResponse(resp), resp |-> NoResponse]
                  ELSE [ok |-> TRUE, err |-> "", resp |-> resp]

(***************************************************************************)
(* Framed reader: Client.readN(stream, n) on the stream's unread bytes.    *)
(* onReadable loops on stream.read(n - buf.length): a paused stream hands  *)
(* out exactly the bytes asked for once it holds that many, and read(0)    *)
(* always returns null.  done: the promise resolves with data; rest: the   *)
(* bytes left unread in the stream.                                        *)
(***************************************************************************)
readN_Greedy(buf, n) ==
  IF n > 0 /\ Len(buf) >= n
  THEN [done |-> TRUE, data |-> Take(buf, n), rest |-> <<>>]
  ELSE [done |-> FALSE, data |-> <<>>, rest |-> buf]

readN(buf, n) ==
  IF n > 0 /\ Len(buf) >= n
  THEN [done |-> TRUE, data |-> Take(buf, n), rest |-> Drop(buf, n)]
  ELSE [done |-> FALSE, data |-> <<>>, rest |-> buf]

(***************************************************************************)
(* Inputs: the client's options and the server's scripted reply on the     *)
(* control stream                                                          *)
(***************************************************************************)
\* ClientOptions as the CLI builds them: names "a" and "é" (2 bytes in UTF-8)
ConfigA == [proto |-> ProtoType.HTTP, name |-> <<97>>, metrics |-> FALSE]

ConfigB == [proto |-> ProtoType.TCP, name |-> <<233>>, metrics |-> TRUE]

Configs == {ConfigA, ConfigB}

\* a frame as the server puts it on the wire, without validation
Frame(hdr, payload) == [hdr |-> hdr, payload |-> payload]

FrameBytes(f) == HeaderBytes(f.hdr) \o f.payload

ResponseFrame(status, domain) ==
  LET body == ResponseBytes(NewResponse(status, 5, domain))
  IN Frame(NewHeader(MessageType.Response, Len(body)), body)

OkReply == ResponseFrame(StatusCode.OK, <<120, 233>>)      \* domain "xé"

\* a session: the client's options and the server's reply
Scenario(c, reply) == [cfg |-> c, reply |-> reply]

Scenarios ==
  { Scenario(ConfigA, OkReply),
    Scenario(ConfigB, OkReply),
    Scenario(ConfigA, ResponseFrame(StatusCode.NameTaken, <<>>)),
    Scenario(ConfigB, ResponseFrame(StatusCode.UnsupportedProto, <<>>)),
    Scenario(ConfigA, ResponseFrame(2, <<>>)),                \* unknown status
    Scenario(ConfigB, Frame(NewHeader(MessageType.Error, 2), <<104, 105, 33>>)),
                                                              \* "hi", then "!"
    Scenario(ConfigA, Frame(NewHeader(MessageType.Error, 0), <<>>)),
    Scenario(ConfigB, Frame(NewHeader(MessageType.Error, 3), <<104>>)),
                                                              \* body cut short
    Scenario(ConfigA, Frame(NewHeader(MessageType.Ack, 1), <<7>>)),
                                                              \* unexpected type
    Scenario(ConfigB, Frame([NewHeader(MessageType.Response, 0)
                               EXCEPT !.version = 17], <<>>)) }

CtlReplies == {sc.reply : sc \in Scenarios}

\* how many bytes of what is in flight one arrival brings: all of it, or one
\* byte less than a header
ChunkSizes(pend) ==
  {Len(pend), IF Len(pend) < HEADER_SIZE THEN Len(pend) ELSE HEADER_SIZE - 1}

(***************************************************************************)
(* State                                                                   *)
(***************************************************************************)
VARIABLES
  cfg,      \* the ClientOptions of this client
  server,   \* the frame the server answers with on the control stream
  signal,   \* abort.signal: "idle", "preAborted" (aborted before run()),
            \*   "armed" (run() added its listener), "aborted"
  conn,     \* the TLS socket: "none", "connecting", "open", "destroyed", "errored"
  run,      \* the promise run() returned: [state, kind, text]
  session,  \* the yamux session: "none", "open", "closed", "errored"
  hs,       \* handleConnection: [pc, need]
  ctl,      \* the control stream: [out, pend, buf, consumed, fin]
  domain,   \* this.domain
  log,      \* the lines printed so far (prettyPrint, console.*)
  closeSeen,\* the session's close listener (handleConnection) has run
  streams,  \* the inbound streams and their forwarders or metrics loops
  events,   \* the "metrics" events emitted so far, in order
  codec,    \* a value handed to the wire codec and what the codec made of it
  reader    \* one call of readN on a stream of its own

Pending == [state |-> "pending", kind |-> "", text |-> <<>>]

\* resolve() and reject(err) of a promise: the first settlement stands
Resolve(p) ==
  IF p.state = "pending" THEN [state |-> "resolved", kind |-> "", text |-> <<>>] ELSE p

Reject(p, kind, text) ==
  IF p.state = "pending" THEN [state |-> "rejected", kind |-> kind, text |-> text] ELSE p

\* run()'s abort listener: conn.destroy(); reject()
AbortListener_NoReject(c, p) == [conn |-> "destroyed", run |-> p]

AbortListener_NoDestroy(c, p) == [conn |-> c, run |-> Reject(p, "undefined", <<>>)]

AbortListener_Resolve(c, p) == [conn |-> "destroyed", run |-> Resolve(p)]

AbortListener(c, p) == [conn |-> "destroyed", run |-> Reject(p, "undefined", <<>>)]

\* abort.abort(): dispatches "abort" synchronously, once, to the listeners added
\* before it; a signal aborted before run() never calls run()'s listener
AbortCall(sig, c, p) ==
  IF sig = "armed"
  THEN [signal |-> "aborted"] @@ AbortListener(c, p)
  ELSE [signal |-> IF sig = "idle" THEN "preAborted" ELSE sig, conn |-> c, run |-> p]

(***************************************************************************)
(* handleConnection after the request is sent: one promise continuation    *)
(* per completed read.  x carries the position, the unread bytes of the    *)
(* control stream and what the function has done so far.                   *)
(***************************************************************************)
HsThrow(x, kind, text) ==
  [x EXCEPT !.pc = "threw", !.outcome = "throw", !.kind = kind, !.text = text]

\* the switch on response.status and what follows it
OnResponse_WrongDomain(x, resp, c) ==
  IF resp.status = StatusCode.NameTaken
  THEN [x EXCEPT !.pc = "returned", !.outcome = "return",
                 !.logs = @ \cup {"err: subdomain is already in use"}]
  ELSE IF resp.status = StatusCode.UnsupportedProto
  THEN [x EXCEPT !.pc = "returned", !.outcome = "return",
                 !.logs = @ \cup {"err: protocol is not supported"}]
  ELSE IF resp.status = StatusCode.OK
  THEN [x EXCEPT !.pc = "wait", !.domain = cfg.name, !.assigned = TRUE,
                 !.logs = @ \cup {"inf: tunnel created!"}]
  ELSE HsThrow([x EXCEPT !.logs = @ \cup {"err: unexpected response status"}],
               "unexpected response status", <<resp.status>>)

OnResponse_Escalate(x, resp, c) ==
  IF resp.status = StatusCode.OK
  THEN [x EXCEPT !.pc = "wait", !.domain = resp.domain, !.assigned = TRUE,
                 !.logs = @ \cup {"inf: tunnel created!"}]
  ELSE HsThrow([x EXCEPT !.logs = @ \cup {"err: unexpected response status"}],
               "unexpected response status", <<resp.status>>)

OnResponse(x, resp, c) ==
  IF resp.status = StatusCode.NameTaken
  THEN [x EXCEPT !.pc = "returned", !.outcome = "return",
                 !.logs = @ \cup {"err: subdomain is already in use"}]
  ELSE IF resp.status = StatusCode.UnsupportedProto
  THEN [x EXCEPT !.pc = "returned", !.outcome = "return",
                 !.logs = @ \cup {"err: protocol is not supported"}]
  ELSE IF resp.status = StatusCode.OK
  THEN [x EXCEPT !.pc = "wait", !.domain = resp.domain, !.assigned = TRUE,
                 !.logs = @ \cup {"inf: tunnel created!"}]
  ELSE HsThrow([x EXCEPT !.logs = @ \cup {"err: unexpected response status"}],
               "unexpected response status", <<resp.status>>)

HsStep(x, c) ==
  IF x.pc \notin {"hdr", "errBody", "respBody"} THEN x
  ELSE LET r == readN(x.buf, x.need) IN
    IF ~r.done THEN x
    ELSE LET y == [x EXCEPT !.buf = r.rest, !.consumed = @ + Len(x.buf) - Len(r.rest)] IN
      IF x.pc = "hdr" THEN
        LET d == deserializeHeader(r.data) IN
        IF ~d.ok THEN HsThrow(y, d.err, <<>>)
        ELSE IF d.header.type = MessageType.Error
        THEN [y EXCEPT !.pc = "errBody", !.need = d.header.length]
        ELSE IF d.header.type # MessageType.Response
        THEN HsThrow(y, "unexpected header type", <<d.header.type>>)
        ELSE [y EXCEPT !.pc = "respBody", !.need = d.header.length]
      ELSE IF x.pc = "errBody" THEN HsThrow(y, "server error", Utf8Decode(r.data))
      ELSE LET d == deserializeResponse(r.data) IN
        IF ~d.ok THEN HsThrow(y, d.err, <<>>) ELSE OnResponse(y, d.resp, c)

\* at most two reads complete in one turn: the header, then the payload
HsRun(x, c) == HsStep(HsStep(x, c), c)

HsStart(h, buf, consumed) ==
  [pc |-> h.pc, need |-> h.need, buf |-> buf, consumed |-> consumed,
   outcome |-> "none", kind |-> "", text |-> <<>>,
   domain |-> <<>>, assigned |-> FALSE, logs |-> {}]

\* run()'s connect callback around handleConnection: resolve() or reject(err)
Settle(p, x) ==
  IF x.outcome = "return" THEN Resolve(p)
  ELSE IF x.outcome = "throw" THEN Reject(p, x.kind, x.text)
  ELSE p

(***************************************************************************)
(* Client.sendRequest: the writes it makes on the control stream, in order *)
(***************************************************************************)
sendRequest_StringLength(c) ==
  LET sr == serializeRequest(NewRequest(c.proto, c.name))
      h0 == NewHeader(MessageType.Request, REQUEST_SIZE + Len(c.name))
      sh == serializeHeader(IF c.metrics THEN setFlag(h0, FLAG_METRICS) ELSE h0)
  IN [ok |-> TRUE, err |-> "", writes |-> <<sh.bytes, sr.bytes>>]

sendRequest(c) ==
  LET sr == serializeRequest(NewRequest(c.proto, c.name))
      h0 == NewHeader(MessageType.Request, Len(sr.bytes))
      sh == serializeHeader(IF c.metrics THEN setFlag(h0, FLAG_METRICS) ELSE h0)
  IN IF ~sr.ok THEN [ok |-> FALSE, err |-> sr.err, writes |-> <<>>]
     ELSE IF ~sh.ok THEN [ok |-> FALSE, err |-> sh.err, writes |-> <<>>]
     ELSE [ok |-> TRUE, err |-> "", writes |-> <<sh.bytes, sr.bytes>>]

(***************************************************************************)
(* Control session: the events of run() and handleConnection               *)
(***************************************************************************)
NoCtl == [out |-> <<>>, pend |-> <<>>, buf |-> <<>>, consumed |-> 0, fin |-> FALSE]

Reading == {"hdr", "errBody", "respBody"}

CtlInit ==
  /\ \E sc \in Scenarios : cfg = sc.cfg /\ server = sc.reply
  /\ signal = "idle"
  /\ conn = "none"
  /\ run = Pending
  /\ session = "none"
  /\ hs = [pc |-> "idle", need |-> 0]
  /\ ctl = NoCtl
  /\ domain = <<>>
  /\ log = {}
  /\ closeSeen = FALSE

\* run(abort): tls.connect starts, the listeners are added
RunCall ==
  /\ conn = "none"
  /\ conn' = "connecting"
  /\ signal' = IF signal = "idle" THEN "armed" ELSE signal
  /\ UNCHANGED <<cfg, server, run, session, hs, ctl, domain, log, closeSeen>>
  /\ UNCHANGED <<streams, events, codec, reader>>

\* the user aborts the shutdown signal (SIGINT)
Abort ==
  /\ signal \in {"idle", "armed"}
  /\ LET a == AbortCall(signal, conn, run) IN
       /\ signal' = a.signal
       /\ conn' = a.conn
       /\ run' = a.run
  /\ UNCHANGED <<cfg, server, session, hs, ctl, domain, log, closeSeen>>
  /\ UNCHANGED <<streams, events, codec, reader>>

\* conn "error": reject(new Error("failed to dial server: ..."))
ConnError ==
  /\ conn \in {"connecting", "open"}
  /\ conn' = "errored"
  /\ run' = Reject(run, "failed to dial server", <<>>)
  /\ UNCHANGED <<cfg, server, signal, session, hs, ctl, domain, log, closeSeen>>
  /\ UNCHANGED <<streams, events, codec, reader>>

\* the TLS connect callback: handleConnection creates the session, opens the
\* control stream and sendRequest writes the request and starts reading
DialOk ==
  /\ conn = "connecting"
  /\ conn' = "open"
  /\ session' = "open"
  /\ LET w == sendRequest(cfg) IN
       IF w.ok
       THEN /\ ctl' = [NoCtl EXCEPT !.out = w.writes, !.pend = FrameBytes(server)]
            /\ hs' = [pc |-> "hdr", need |-> HEADER_SIZE]
            /\ run' = run
       ELSE /\ ctl' = NoCtl
            /\ hs' = [pc |-> "threw", need |-> 0]
            /\ run' = Reject(run, w.err, <<>>)
  /\ UNCHANGED <<cfg, server, signal, domain, log, closeSeen>>
  /\ UNCHANGED <<streams, events, codec, reader>>

\* bytes of the server's reply arrive on the control stream ("readable")
CtlDeliver ==
  /\ conn = "open" /\ session = "open"
  /\ ctl.pend # <<>> /\ ~ctl.fin
  /\ \E k \in ChunkSizes(ctl.pend) :
       LET buf == ctl.buf \o Take(ctl.pend, k)
           x == HsRun(HsStart(hs, buf, ctl.consumed), cfg)
       IN /\ ctl' = [ctl EXCEPT !.pend = Drop(ctl.pend, k), !.buf = x.buf,
                                !.consumed = x.consumed]
          /\ hs' = [pc |-> x.pc, need |-> x.need]
          /\ run' = Settle(run, x)
          /\ domain' = IF x.assigned THEN x.domain ELSE domain
          /\ log' = log \cup x.logs
  /\ UNCHANGED <<cfg, server, signal, conn, session, closeSeen>>
  /\ UNCHANGED <<streams, events, codec, reader>>

\* the control stream ends while a read is pending (readN.onEnd): what is
\* left of the stream is fewer bytes than the read wants
CtlEnd ==
  /\ hs.pc \in Reading /\ ~ctl.fin
  /\ ctl.pend = <<>> \/ session # "open" \/ conn # "open"
  /\ ctl' = [ctl EXCEPT !.fin = TRUE, !.buf = <<>>, !.consumed = @ + Len(ctl.buf)]
  /\ hs' = [pc |-> "threw", need |-> 0]
  /\ run' = Reject(run, "Stream ended before reading enough data", <<>>)
  /\ UNCHANGED <<cfg, server, signal, conn, session, domain, log, closeSeen>>
  /\ UNCHANGED <<streams, events, codec, reader>>

\* the control stream errors while a read is pending (readN.onError)
CtlError ==
  /\ hs.pc \in Reading /\ ~ctl.fin
  /\ ctl' = [ctl EXCEPT !.fin = TRUE]
  /\ hs' = [pc |-> "threw", need |-> 0]
  /\ run' = Reject(run, "stream error", <<>>)
  /\ UNCHANGED <<cfg, server, signal, conn, session, domain, log, closeSeen>>
  /\ UNCHANGED <<streams, events, codec, reader>>

\* session.close() or a close of the transport: "close" is emitted once, to
\* the listeners present; handleConnection's listener: abort.abort(); resolve()
SessionCloseEffect(sig, c, p, h) ==
  IF h.pc = "wait"
  THEN LET a == AbortCall(sig, c, p) IN
       [signal |-> a.signal, conn |-> a.conn, run |-> Resolve(a.run),
        hs |-> [pc |-> "closed", need |-> 0], closeSeen |-> TRUE]
  ELSE [signal |-> sig, conn |-> c, run |-> p, hs |-> h, closeSeen |-> FALSE]

SessionClose ==
  /\ session \in {"open", "errored"}
  /\ session' = "closed"
  /\ LET e == SessionCloseEffect(signal, conn, run, hs) IN
       /\ signal' = e.signal
       /\ conn' = e.conn
       /\ run' = e.run
       /\ hs' = e.hs
       /\ closeSeen' = (closeSeen \/ e.closeSeen)
  /\ UNCHANGED <<cfg, server, ctl, domain, log>>
  /\ UNCHANGED <<streams, events, codec, reader>>

\* the session emits "error"; handleConnection's listener: reject(err)
SessionError ==
  /\ session = "open"
  /\ session' = "errored"
  /\ IF hs.pc = "wait"
     THEN /\ run' = Reject(run, "session error", <<>>)
          /\ hs' = [pc |-> "failed", need |-> 0]
     ELSE UNCHANGED <<run, hs>>
  /\ UNCHANGED <<cfg, server, signal, conn, ctl, domain, log, closeSeen>>
  /\ UNCHANGED <<streams, events, codec, reader>>

(***************************************************************************)
(* Metrics                                                                 *)
(***************************************************************************)
METRICS_SIZE == 36

NoMetrics ==
  [ingress |-> 0, egress |-> 0, uptime |-> 0, connectionCount |-> 0,
   activeConnections |-> 0]

NewMetrics(ingress, egress, uptime, connectionCount, activeConnections) ==
  [ingress |-> ingress, egress |-> egress, uptime |-> uptime,
   connectionCount |-> connectionCount, activeConnections |-> activeConnections]

serializeMetrics(m) ==
  PutBE(m.ingress, 8) \o PutBE(m.egress, 8) \o PutBE(m.uptime, 8)
    \o PutBE(m.connectionCount, 8) \o PutBE(m.activeConnections, 4)

deserializeMetrics_WrongOffset(buf) ==
  IF Len(buf) < METRICS_SIZE
  THEN [ok |-> FALSE, err |-> "invalid metrics size", metrics |-> NoMetrics]
  ELSE [ok |-> TRUE, err |-> "",
        metrics |-> NewMetrics(GetBE(SubSeq(buf, 1, 8)), GetBE(SubSeq(buf, 9, 16)),
                               GetBE(SubSeq(buf, 17, 24)), GetBE(SubSeq(buf, 25, 32)),
                               GetBE(SubSeq(buf, 29, 32)))]

deserializeMetrics(buf) ==
  IF Len(buf) < METRICS_SIZE
  THEN [ok |-> FALSE, err |-> "invalid metrics size", metrics |-> NoMetrics]
  ELSE [ok |-> TRUE, err |-> "",
        metrics |-> NewMetrics(GetBE(SubSeq(buf, 1, 8)), GetBE(SubSeq(buf, 9, 16)),
                               GetBE(SubSeq(buf, 17, 24)), GetBE(SubSeq(buf, 25, 32)),
                               GetBE(SubSeq(buf, 33, 36)))]

(***************************************************************************)
(* Inbound streams: what the server sends on one, what the local target    *)
(* sends on a forwarded connection                                         *)
(***************************************************************************)
Streams == DOMAIN streams

AccessData == <<71, 69>>

LocalData == <<72, 73>>

MetricsFrame(m) ==
  HeaderBytes(NewHeader(MessageType.Metrics, METRICS_SIZE)) \o serializeMetrics(m)

StreamScripts ==
  { HeaderBytes(NewHeader(MessageType.Access, 0)) \o AccessData,
    MetricsFrame(NewMetrics(1, 2, 3, 4, 5)) \o MetricsFrame(NewMetrics(6, 7, 8, 9, 10))
      \o MetricsFrame(NewMetrics(11, 12, 13, 14, 15)),
    HeaderBytes(NewHeader(MessageType.End, 0)),
    HeaderBytes(NewHeader(MessageType.Ack, 0)),
    HeaderBytes([NewHeader(MessageType.Access, 0) EXCEPT !.version = 17]),
    <<16, 3, 0>> }

\* the messages a stream "error" event may carry
StreamErrors == {"stream closed", "ECONNRESET"}

\* err.message.includes("EOF") || err.message.includes("closed")
IsShutdownMessage(msg) == msg \in {"stream closed"}

EOF_MESSAGE == "Stream ended before reading enough data"

NoStream ==
  [pc |-> "none",        \* "hdr", "fwd", "mBody", "mHdr", "done"
   need |-> 0,           \* the size of the pending readN
   pend |-> <<>>,        \* bytes the server has yet to send
   buf |-> <<>>,         \* bytes arrived and not read
   arrived |-> <<>>,     \* every byte arrived so far
   fin |-> FALSE,        \* the server ended its side
   st |-> "open",        \* "errored" ("error" emitted), "closed" ("close" emitted)
   closed |-> FALSE,     \* the client called stream.close()
   out |-> <<>>,         \* bytes the client wrote to the stream
   local |-> "none",     \* localConn: "connecting", "open", "halfClosed" (the pipe
                         \*   ended our side), "ended", "errored", "closed"
   piped |-> FALSE,      \* the connect listener has set up the two pipes
   toLocal |-> <<>>,     \* bytes written to localConn
   lpend |-> <<>>,       \* bytes the local target has yet to send
   lsent |-> <<>>,       \* bytes the local target has sent
   cleaned |-> FALSE,    \* isCleanedUp
   cleanups |-> 0,       \* how often the body of cleanup ran
   task |-> "none",      \* forwardStream's promise: "pending", "resolved", "rejected"
   dialOut |-> 0,        \* Len(out) when the local dial started
   early |-> 0,          \* bytes unread in the stream when localConn connected
   acks |-> 0]           \* Ack headers written

\* Client.sendAck
sendAck(s) ==
  [s EXCEPT !.out = @ \o serializeHeader(NewHeader(MessageType.Ack, 0)).bytes,
            !.acks = @ + 1]

\* Client.forwardStream up to the return of the promise: the dial starts and
\* the seven listeners are added
forwardStream(s) ==
  [s EXCEPT !.pc = "fwd", !.need = 0, !.local = "connecting", !.task = "pending",
            !.lpend = LocalData, !.dialOut = Len(s.out)]

\* Client.handleAccess up to forwardStream's promise
handleAccess_DialFirst(s) == sendAck(forwardStream(s))

handleAccess_NoAck(s) == forwardStream(s)

handleAccess(s) == forwardStream(sendAck(s))

\* forwardStream's cleanup(err); isErr: an error was passed
cleanup_NoGuard(s, isErr) ==
  [s EXCEPT !.cleaned = TRUE, !.closed = TRUE, !.cleanups = @ + 1,
            !.task = IF isErr THEN "rejected" ELSE "resolved"]

cleanup(s, isErr) ==
  IF s.cleaned THEN s
  ELSE [s EXCEPT !.cleaned = TRUE, !.closed = TRUE, !.cleanups = @ + 1,
                 !.task = IF isErr THEN "rejected" ELSE "resolved"]

\* handleAccess's catch in onNewStream when forwardStream rejects
AccessLogs(before, after) ==
  IF before.task = "pending" /\ after.task = "rejected"
  THEN {"console.error: failed to handle access"} ELSE {}

\* stream.pipe(localConn) is moving data: both ends usable
Flowing(s) == s.piped /\ s.local = "open" /\ ~s.closed /\ s.st = "open"

\* stream.pipe(localConn): the unread bytes go to localConn
pipeToLocal_Reversed(s) ==
  IF Flowing(s) THEN [s EXCEPT !.toLocal = s.buf \o @, !.buf = <<>>] ELSE s

pipeToLocal(s) ==
  IF Flowing(s) THEN [s EXCEPT !.toLocal = @ \o s.buf, !.buf = <<>>] ELSE s

\* the stream's "end" once its data is consumed: the pipe ends localConn and
\* the end listener runs cleanup()
streamEnded(s) ==
  IF Flowing(s) /\ s.fin /\ s.buf = <<>>
  THEN cleanup([s EXCEPT !.local = "halfClosed"], FALSE)
  ELSE s

(***************************************************************************)
(* onNewStream and handleMetrics: one promise continuation per completed   *)
(* read.  x = [s, logs, events, endSession]                                *)
(***************************************************************************)
CloseStream(s) == [s EXCEPT !.pc = "done", !.need = 0, !.closed = TRUE]

ReadingPcs == {"hdr", "mBody", "mHdr"}

Dispatch_Fallthrough(x, header) ==
  IF header.type = MessageType.Access
  THEN [x EXCEPT !.s = handleAccess(x.s)]
  ELSE IF header.type = MessageType.Metrics
  THEN [x EXCEPT !.s = [x.s EXCEPT !.pc = "mBody", !.need = header.length]]
  ELSE [x EXCEPT !.s = CloseStream(x.s), !.logs = @ \cup {"inf: tunnel timed out"},
                 !.endSession = TRUE]

Dispatch(x, header) ==
  IF header.type = MessageType.Access
  THEN [x EXCEPT !.s = handleAccess(x.s)]
  ELSE IF header.type = MessageType.Metrics
  THEN [x EXCEPT !.s = [x.s EXCEPT !.pc = "mBody", !.need = header.length]]
  ELSE IF header.type = MessageType.End
  THEN [x EXCEPT !.s = CloseStream(x.s), !.logs = @ \cup {"inf: tunnel timed out"},
                 !.endSession = TRUE]
  ELSE [x EXCEPT !.s = CloseStream(x.s),
                 !.logs = @ \cup {"console.debug: unexpected header type"}]

\* the catch of onNewStream
HeaderReadFailed(x, msg) ==
  [x EXCEPT !.s = CloseStream(x.s),
            !.logs = @ \cup {IF IsShutdownMessage(msg)
                             THEN "console.debug: stream connection closed"
                             ELSE "console.error: failed to read stream header"}]

StreamStep(x) ==
  IF x.s.pc \notin ReadingPcs THEN x
  ELSE LET r == readN(x.s.buf, x.s.need) IN
    IF ~r.done THEN x
    ELSE LET y == [x EXCEPT !.s.buf = r.rest] IN
      IF x.s.pc = "hdr" THEN
        LET d == deserializeHeader(r.data) IN
        IF d.ok THEN Dispatch(y, d.header) ELSE HeaderReadFailed(y, d.err)
      ELSE IF x.s.pc = "mBody" THEN
        LET d == deserializeMetrics(r.data) IN
        IF d.ok
        THEN [y EXCEPT !.events = Append(@, d.metrics),
                       !.s = [y.s EXCEPT !.pc = "mHdr", !.need = HEADER_SIZE]]
        ELSE [y EXCEPT !.s = CloseStream(y.s)]
      ELSE
        LET d == deserializeHeader(r.data) IN
        IF d.ok
        THEN [y EXCEPT !.s = [y.s EXCEPT !.pc = "mBody", !.need = d.header.length]]
        ELSE [y EXCEPT !.s = CloseStream(y.s)]

RECURSIVE StreamRun(_)
StreamRun(x) == LET y == StreamStep(x) IN IF y = x THEN x ELSE StreamRun(y)

\* a pending readN of the stream rejects with msg
ReadRejected_NoFinally(x, msg) ==
  IF x.s.pc = "hdr" THEN HeaderReadFailed(x, msg)
  ELSE [x EXCEPT !.s = [x.s EXCEPT !.pc = "done", !.need = 0]]

ReadRejected(x, msg) ==
  IF x.s.pc = "hdr" THEN HeaderReadFailed(x, msg) ELSE [x EXCEPT !.s = CloseStream(x.s)]

StreamStart(s) == [s |-> s, logs |-> {}, events |-> events, endSession |-> FALSE]

(***************************************************************************)
(* The events of the inbound streams                                       *)
(***************************************************************************)
vars ==
  <<cfg, server, signal, conn, run, session, hs, ctl, domain, log, closeSeen,
    streams, events, codec, reader>>

\* what a turn of stream i leaves: the stream, the lines logged, the events
\* emitted and, after an End header, this.session?.close()
Commit(i, x) ==
  /\ streams' = [streams EXCEPT ![i] = x.s]
  /\ log' = log \cup x.logs
  /\ events' = x.events
  /\ IF x.endSession /\ session \in {"open", "errored"}
     THEN LET e == SessionCloseEffect(signal, conn, run, hs) IN
            /\ session' = "closed"
            /\ signal' = e.signal
            /\ conn' = e.conn
            /\ run' = e.run
            /\ hs' = e.hs
            /\ closeSeen' = (closeSeen \/ e.closeSeen)
     ELSE UNCHANGED <<session, signal, conn, run, hs, closeSeen>>
  /\ UNCHANGED <<cfg, server, ctl, domain, codec, reader>>

\* a turn of stream i that touches only the stream and the log
CommitLocal(i, s) ==
  /\ streams' = [streams EXCEPT ![i] = s]
  /\ log' = log \cup AccessLogs(streams[i], s)
  /\ UNCHANGED <<cfg, server, signal, conn, run, session, hs, ctl, domain,
                 closeSeen, events, codec, reader>>

Live(i) ==
  /\ conn = "open" /\ session = "open"
  /\ streams[i].pc # "none" /\ streams[i].st = "open" /\ ~streams[i].closed

\* the server opens a stream: the session calls onNewStream, which starts
\* reading the header
StreamOpen(i) ==
  /\ conn = "open" /\ session = "open"
  /\ streams[i].pc = "none"
  /\ \A j \in Streams : j < i => streams[j].pc # "none"
  /\ \E script \in StreamScripts :
       streams' = [streams EXCEPT ![i] =
                     [NoStream EXCEPT !.pc = "hdr", !.need = HEADER_SIZE,
                                      !.pend = script]]
  /\ UNCHANGED <<cfg, server, signal, conn, run, session, hs, ctl, domain, log,
                 closeSeen, events, codec, reader>>

\* bytes arrive on stream i: a pending read may complete, a pipe moves them on
StreamDeliver(i) ==
  /\ Live(i)
  /\ streams[i].pend # <<>> /\ ~streams[i].fin
  /\ \E k \in ChunkSizes(streams[i].pend) :
       LET s0 == streams[i]
           s1 == [s0 EXCEPT !.pend = Drop(s0.pend, k),
                            !.buf = @ \o Take(s0.pend, k),
                            !.arrived = @ \o Take(s0.pend, k)]
           x == StreamRun(StreamStart(s1))
       IN Commit(i, [x EXCEPT !.s = pipeToLocal(x.s)])

\* the server ends stream i after its last byte
StreamFin(i) ==
  /\ Live(i)
  /\ streams[i].pend = <<>> /\ ~streams[i].fin
  /\ LET s1 == [streams[i] EXCEPT !.fin = TRUE]
         x == StreamStart(s1)
     IN IF s1.pc \in ReadingPcs
        THEN Commit(i, ReadRejected([x EXCEPT !.s.buf = <<>>], EOF_MESSAGE))
        ELSE Commit(i, [x EXCEPT !.s = streamEnded(s1),
                                 !.logs = AccessLogs(s1, streamEnded(s1))])

\* stream i emits "error"
StreamError(i) ==
  /\ streams[i].pc \in ReadingPcs \cup {"fwd"}
  /\ streams[i].st = "open"
  /\ \E msg \in StreamErrors :
       LET s1 == [streams[i] EXCEPT !.st = "errored"]
           x == StreamStart(s1)
       IN IF s1.pc \in ReadingPcs
          THEN Commit(i, ReadRejected(x, msg))
          ELSE Commit(i, [x EXCEPT !.s = cleanup(s1, TRUE),
                                   !.logs = AccessLogs(s1, cleanup(s1, TRUE))])

\* stream i of a forwarder emits "close"
StreamCloseEvent(i) ==
  /\ streams[i].pc = "fwd"
  /\ \/ streams[i].st = "errored"
     \/ streams[i].st = "open" /\ (session # "open" \/ streams[i].closed)
  /\ CommitLocal(i, cleanup([streams[i] EXCEPT !.st = "closed"], FALSE))

\* localConn "connect": stream.pipe(localConn); localConn.pipe(stream)
LocalConnect(i) ==
  /\ streams[i].local = "connecting"
  /\ LET s1 == [streams[i] EXCEPT !.local = "open", !.piped = TRUE,
                                  !.early = Len(streams[i].buf)]
     IN CommitLocal(i, streamEnded(pipeToLocal(s1)))

\* the local target sends bytes: localConn.pipe(stream) writes them to the stream
LocalSend(i) ==
  /\ streams[i].local = "open" /\ streams[i].piped
  /\ streams[i].lpend # <<>>
  /\ \E k \in ChunkSizes(streams[i].lpend) :
       LET s0 == streams[i]
           chunk == Take(s0.lpend, k)
           s1 == [s0 EXCEPT !.lpend = Drop(s0.lpend, k), !.lsent = @ \o chunk]
       IN CommitLocal(i, IF ~s1.closed /\ s1.st = "open"
                         THEN [s1 EXCEPT !.out = @ \o chunk] ELSE s1)

\* localConn "end": the local target closed its side
LocalEnd(i) ==
  /\ streams[i].local \in {"open", "halfClosed"}
  /\ CommitLocal(i, cleanup([streams[i] EXCEPT !.local = "ended"], FALSE))

\* localConn "error": the dial failed or the connection broke
LocalError(i) ==
  /\ streams[i].local \in {"connecting", "open", "halfClosed"}
  /\ CommitLocal(i, cleanup([streams[i] EXCEPT !.local = "errored"], TRUE))

\* localConn "close", after its end or its error
LocalClose(i) ==
  /\ streams[i].local \in {"ended", "errored"}
  /\ CommitLocal(i, cleanup([streams[i] EXCEPT !.local = "closed"], FALSE))

\* the variables of the session
mainvars ==
  <<cfg, server, signal, conn, run, session, hs, ctl, domain, log, closeSeen,
    streams, events>>

(***************************************************************************)
(* The wire codec on its own: a value is handed to a serializer, the bytes *)
(* it wrote (or, when it threw, the bytes a peer without validation would  *)
(* have written) are handed to the deserializer.  The session stands still.*)
(***************************************************************************)
\* deserializeRequest
deserializeRequest(buf) ==
  IF Len(buf) < REQUEST_SIZE
  THEN [ok |-> FALSE, err |-> "invalid request size", req |-> NewRequest(0, <<>>)]
  ELSE LET proto == buf[1]
           nameLength == GetBE(SubSeq(buf, 2, 5))
       IN IF Len(buf) < REQUEST_SIZE + nameLength
          THEN [ok |-> FALSE, err |-> "insufficient data", req |-> NewRequest(0, <<>>)]
          ELSE LET name == Utf8Decode(SubSeq(buf, REQUEST_SIZE + 1,
                                             REQUEST_SIZE + nameLength))
                   req == NewRequest(proto, name)
               IN IF validateRequest(req) # ""
                  THEN [ok |-> FALSE, err |-> validateRequest(req),
                        req |-> NewRequest(0, <<>>)]
                  ELSE [ok |-> TRUE, err |-> "", req |-> req]

\* the bytes the DataView writes, whatever the request
RequestBytes(req) ==
  <<req.proto>> \o PutBE(req.nameLength, 4) \o Utf8Encode(req.name)

\* the values handed to the codec
HeaderInputs ==
  { [version |-> v, type |-> t, flags |-> f, length |-> l, reserved |-> r] :
      v \in {VERSION, 17}, t \in {MessageType.Request, MessageType.Ack, 9},
      f \in {0, FLAG_METRICS, 130},
      l \in {0, 420, MAX_PAYLOAD_SIZE, MAX_PAYLOAD_SIZE + 1}, r \in {0, 1} }

\* names: "", "a", "é" (two bytes), "€a" (four bytes)
NameInputs == {<<>>, <<97>>, <<233>>, <<8364, 97>>}

\* requests with the nameLength the constructor derives and with others
RequestInputs ==
  { [proto |-> p, nameLength |-> n, name |-> s] :
      p \in {ProtoType.HTTP, ProtoType.TCP, 3}, n \in 0..4, s \in NameInputs }

\* responses as the constructor builds them
ResponseInputs ==
  { NewResponse(st, ttl, d) :
      st \in {StatusCode.OK, 2, StatusCode.NameTaken, StatusCode.UnsupportedProto},
      ttl \in {0, 60000}, d \in {<<>>, <<120>>, <<120, 233>>} }

MetricsInputs ==
  { NewMetrics(i, e, u, c, a) :
      i \in {0, 420}, e \in {69}, u \in {20000, 16777215}, c \in {0, 111},
      a \in {0, 222} }

\* the masks handed to setFlag, clearFlag and hasFlag
FlagMasks == {0, FLAG_METRICS, 2, 3, 128}

FlagHeaders == {[NewHeader(MessageType.Ack, 0) EXCEPT !.flags = f] : f \in {0, 1, 2, 5, 130, 255}}

\* calls of setFlag / clearFlag made on one header
MaxFlagOps == 3

NoResult == [ok |-> FALSE, err |-> "", bytes |-> <<>>]

\* kind: "none", "header", "request", "response", "metrics", "flags"
\* pc: "in" (the value is built), "ser" (serialized), "de" (deserialized)
NoCodec ==
  [kind |-> "none", pc |-> "in", x |-> NoHeader, mask |-> 0,
   ser |-> NoResult, de |-> NoResult, calls |-> <<>>]

CodecInput(kind, x) == [NoCodec EXCEPT !.kind = kind, !.x = x]

\* what is on the wire after the serializer ran
Wire(c, raw) == IF c.ser.ok THEN c.ser.bytes ELSE raw

CallSerializeHeader ==
  /\ codec.kind = "header" /\ codec.pc = "in"
  /\ codec' = [codec EXCEPT !.pc = "ser", !.ser = serializeHeader(codec.x)]
  /\ UNCHANGED <<mainvars, reader>>

CallDeserializeHeader ==
  /\ codec.kind = "header" /\ codec.pc = "ser"
  /\ codec' = [codec EXCEPT !.pc = "de",
                 !.de = deserializeHeader(Wire(codec, HeaderBytes(codec.x)))]
  /\ UNCHANGED <<mainvars, reader>>

CallSerializeRequest ==
  /\ codec.kind = "request" /\ codec.pc = "in"
  /\ codec' = [codec EXCEPT !.pc = "ser", !.ser = serializeRequest(codec.x)]
  /\ UNCHANGED <<mainvars, reader>>

CallDeserializeRequest ==
  /\ codec.kind = "request" /\ codec.pc = "ser"
  /\ codec' = [codec EXCEPT !.pc = "de",
                 !.de = deserializeRequest(Wire(codec, RequestBytes(codec.x)))]
  /\ UNCHANGED <<mainvars, reader>>

CallSerializeResponse ==
  /\ codec.kind = "response" /\ codec.pc = "in"
  /\ codec' = [codec EXCEPT !.pc = "ser", !.ser = serializeResponse(codec.x)]
  /\ UNCHANGED <<mainvars, reader>>

CallDeserializeResponse ==
  /\ codec.kind = "response" /\ codec.pc = "ser"
  /\ codec' = [codec EXCEPT !.pc = "de",
                 !.de = deserializeResponse(Wire(codec, ResponseBytes(codec.x)))]
  /\ UNCHANGED <<mainvars, reader>>

CallSerializeMetrics ==
  /\ codec.kind = "metrics" /\ codec.pc = "in"
  /\ codec' = [codec EXCEPT !.pc = "ser",
                 !.ser = [ok |-> TRUE, err |-> "", bytes |-> serializeMetrics(codec.x)]]
  /\ UNCHANGED <<mainvars, reader>>

CallDeserializeMetrics ==
  /\ codec.kind = "metrics" /\ codec.pc = "ser"
  /\ codec' = [codec EXCEPT !.pc = "de", !.de = deserializeMetrics(codec.ser.bytes)]
  /\ UNCHANGED <<mainvars, reader>>

\* header.setFlag(mask); calls keeps, per call, the flags before and after it
\* and what hasFlag(mask) answers after it
FlagCall(op, before, after) ==
  [op |-> op, before |-> before.flags, after |-> after.flags,
   has |-> hasFlag(after, codec.mask)]

CallSetFlag ==
  /\ codec.kind = "flags" /\ Len(codec.calls) < MaxFlagOps
  /\ LET h == setFlag(codec.x, codec.mask) IN
       codec' = [codec EXCEPT !.x = h, !.calls = Append(@, FlagCall("set", codec.x, h))]
  /\ UNCHANGED <<mainvars, reader>>

CallClearFlag ==
  /\ codec.kind = "flags" /\ Len(codec.calls) < MaxFlagOps
  /\ LET h == clearFlag(codec.x, codec.mask) IN
       codec' = [codec EXCEPT !.x = h, !.calls = Append(@, FlagCall("clear", codec.x, h))]
  /\ UNCHANGED <<mainvars, reader>>

(***************************************************************************)
(* Client.readN on a stream of its own.  The stream is a paused Readable:  *)
(* the peer's chunks are pushed into its buffer, "readable" is emitted     *)
(* once for the pushes since the last turn, read(m) hands out m bytes when *)
(* the buffer holds them, what is left when the stream has ended, and null *)
(* otherwise; "end" is emitted after a read found the ended stream empty.  *)
(***************************************************************************)
\* the largest n handed to readN
MaxRead == 3

\* the most bytes the peer sends
MaxData == 4

PeerData == [i \in 1..MaxData |-> 10 + i]

NoReader ==
  [n |-> 0,              \* the n of readN(stream, n)
   pend |-> <<>>,        \* bytes the peer has yet to send
   willEnd |-> FALSE,    \* the peer ends the stream after its last byte
   sbuf |-> <<>>,        \* the stream's buffer
   arrived |-> 0,        \* bytes pushed so far
   ended |-> FALSE,      \* the peer's end has arrived
   readable |-> FALSE,   \* a "readable" event is due
   endDue |-> FALSE,     \* an "end" event is due
   endEmitted |-> FALSE,
   acc |-> <<>>,         \* readN's buf
   state |-> "none",     \* "pending", "resolved", "rejected"
   result |-> <<>>,      \* the buffer readN resolved with
   err |-> ""]           \* the message readN rejected with

ReaderInput(n, data, willEnd) ==
  [NoReader EXCEPT !.n = n, !.pend = data, !.willEnd = willEnd]

\* stream.read(m): [chunk, null, rest, endDue]
streamRead(sbuf, ended, m) ==
  IF m > 0 /\ Len(sbuf) >= m
  THEN [null |-> FALSE, chunk |-> Take(sbuf, m), rest |-> Drop(sbuf, m), endDue |-> FALSE]
  ELSE IF m > 0 /\ ended /\ sbuf # <<>>
  THEN [null |-> FALSE, chunk |-> sbuf, rest |-> <<>>, endDue |-> FALSE]
  ELSE [null |-> TRUE, chunk |-> <<>>, rest |-> sbuf, endDue |-> ended /\ sbuf = <<>>]

\* readN.onReadable: while ((chunk = stream.read(n - buf.length)) !== null) ...
RECURSIVE onReadable(_)
onReadable(r) ==
  IF r.state # "pending" THEN r
  ELSE LET c == streamRead(r.sbuf, r.ended, r.n - Len(r.acc)) IN
    IF c.null THEN [r EXCEPT !.endDue = @ \/ (c.endDue /\ ~r.endEmitted)]
    ELSE LET acc == r.acc \o c.chunk IN
      IF Len(acc) = r.n
      THEN [r EXCEPT !.sbuf = c.rest, !.acc = acc, !.state = "resolved", !.result = acc]
      ELSE onReadable([r EXCEPT !.sbuf = c.rest, !.acc = acc])

\* readN(stream, n) is called: the listeners are added, onReadable() runs
ReadCall ==
  /\ reader.state = "none"
  /\ reader' = onReadable([reader EXCEPT !.state = "pending"])
  /\ UNCHANGED <<mainvars, codec>>

\* a chunk of the peer arrives
ReadPush ==
  /\ reader.pend # <<>>
  /\ \E k \in 1..Len(reader.pend) :
       reader' = [reader EXCEPT !.pend = Drop(@, k),
                                !.sbuf = @ \o Take(reader.pend, k),
                                !.arrived = @ + k,
                                !.readable = TRUE]
  /\ UNCHANGED <<mainvars, codec>>

\* the peer's end arrives after its last byte
ReadPeerEnd ==
  /\ reader.willEnd /\ reader.pend = <<>> /\ ~reader.ended
  /\ reader' = [reader EXCEPT !.ended = TRUE, !.readable = TRUE]
  /\ UNCHANGED <<mainvars, codec>>

\* "readable" is emitted
ReadReadable ==
  /\ reader.readable
  /\ reader' = onReadable([reader EXCEPT !.readable = FALSE])
  /\ UNCHANGED <<mainvars, codec>>

\* "end" is emitted: readN.onEnd
ReadEnd ==
  /\ reader.endDue /\ ~reader.endEmitted
  /\ reader' = [reader EXCEPT !.endDue = FALSE, !.endEmitted = TRUE,
                  !.state = IF @ = "pending" THEN "rejected" ELSE @,
                  !.err = IF reader.state = "pending" THEN EOF_MESSAGE ELSE @]
  /\ UNCHANGED <<mainvars, codec>>

(***************************************************************************)
(* The specification                                                       *)
(***************************************************************************)
Init ==
  /\ CtlInit
  /\ streams = [i \in 1..MaxStreams |-> NoStream]
  /\ events = <<>>
  /\ codec = NoCodec
  /\ reader = NoReader

Next ==
  \/ RunCall
  \/ Abort
  \/ ConnError
  \/ DialOk
  \/ CtlDeliver
  \/ CtlEnd
  \/ CtlError
  \/ SessionClose
  \/ SessionError
  \/ \E i \in Streams :
       \/ StreamOpen(i)
       \/ StreamDeliver(i)
       \/ StreamFin(i)
       \/ StreamError(i)
       \/ StreamCloseEvent(i)
       \/ LocalConnect(i)
       \/ LocalSend(i)
       \/ LocalEnd(i)
       \/ LocalError(i)
       \/ LocalClose(i)

Spec == Init /\ [][Next]_vars

\* the session before run(), with the options of ConfigA, standing still
Quiet ==
  /\ CtlInit /\ cfg = ConfigA /\ server = OkReply
  /\ streams = [i \in 1..MaxStreams |-> NoStream]
  /\ events = <<>>

(***************************************************************************)
(* The codec applied to values drawn from the input sets                   *)
(***************************************************************************)
CodecInit ==
  /\ Quiet
  /\ reader = NoReader
  /\ \/ \E h \in HeaderInputs : codec = CodecInput("header", h)
     \/ \E r \in RequestInputs : codec = CodecInput("request", r)
     \/ \E r \in ResponseInputs : codec = CodecInput("response", r)
     \/ \E m \in MetricsInputs : codec = CodecInput("metrics", m)
     \/ \E h \in FlagHeaders, m \in FlagMasks :
          codec = [CodecInput("flags", h) EXCEPT !.mask = m]

CodecNext ==
  \/ CallSerializeHeader
  \/ CallDeserializeHeader
  \/ CallSerializeRequest
  \/ CallDeserializeRequest
  \/ CallSerializeResponse
  \/ CallDeserializeResponse
  \/ CallSerializeMetrics
  \/ CallDeserializeMetrics
  \/ CallSetFlag
  \/ CallClearFlag

CodecSpec == CodecInit /\ [][CodecNext]_vars

(***************************************************************************)
(* readN on every n, every amount of data and every way of chunking it     *)
(***************************************************************************)
ReadInit ==
  /\ Quiet
  /\ codec = NoCodec
  /\ \E n \in 0..MaxRead, k \in 0..MaxData, e \in BOOLEAN :
       reader = ReaderInput(n, Take(PeerData, k), e)

ReadNext ==
  \/ ReadCall
  \/ ReadPush
  \/ ReadPeerEnd
  \/ ReadReadable
  \/ ReadEnd

ReadSpec == ReadInit /\ [][ReadNext]_vars

(***************************************************************************)
(* An established tunnel with several inbound streams at once: the options *)
(* of ConfigA, the reply OkReply, and the session's own events             *)
(***************************************************************************)
\* number of inbound streams of the tunnel
MaxTunnelStreams == 2

TunnelInit ==
  /\ CtlInit /\ cfg = ConfigA /\ server = OkReply
  /\ streams = [i \in 1..MaxTunnelStreams |-> NoStream]
  /\ events = <<>>
  /\ codec = NoCodec
  /\ reader = NoReader

TunnelNext ==
  \/ RunCall
  \/ Abort
  \/ DialOk
  \/ CtlDeliver
  \/ SessionClose
  \/ SessionError
  \/ \E i \in Streams :
       \/ StreamOpen(i)
       \/ StreamDeliver(i)
       \/ StreamFin(i)
       \/ StreamError(i)
       \/ StreamCloseEvent(i)
       \/ LocalConnect(i)
       \/ LocalSend(i)
       \/ LocalEnd(i)
       \/ LocalError(i)
       \/ LocalClose(i)

TunnelSpec == TunnelInit /\ [][TunnelNext]_vars

(***************************************************************************)
(* An established tunnel whose server opens metrics streams: well-formed   *)
(* frames, a frame of another type after the first, a body too short to    *)
(* decode, a refused header, a frame that declares length 0                *)
(***************************************************************************)
ShortBody == <<0, 0, 0, 0, 0, 0, 0, 9>>

MetricsScripts ==
  { MetricsFrame(NewMetrics(1, 2, 3, 4, 5)) \o MetricsFrame(NewMetrics(6, 7, 8, 9, 10)),
    MetricsFrame(NewMetrics(1, 2, 3, 4, 5))
      \o HeaderBytes(NewHeader(MessageType.End, METRICS_SIZE))
      \o serializeMetrics(NewMetrics(6, 7, 8, 9, 10)),
    MetricsFrame(NewMetrics(1, 2, 3, 4, 5))
      \o HeaderBytes(NewHeader(MessageType.Metrics, Len(ShortBody))) \o ShortBody,
    MetricsFrame(NewMetrics(1, 2, 3, 4, 5))
      \o HeaderBytes([NewHeader(MessageType.Metrics, METRICS_SIZE) EXCEPT !.version = 17]),
    HeaderBytes(NewHeader(MessageType.Metrics, Len(ShortBody))) \o ShortBody,
    MetricsFrame(NewMetrics(1, 2, 3, 4, 5))
      \o HeaderBytes(NewHeader(MessageType.Metrics, 0))
      \o MetricsFrame(NewMetrics(6, 7, 8, 9, 10)) }

\* the server opens a stream on which it will send metrics frames
MetricsStreamOpen(i) ==
  /\ conn = "open" /\ session = "open"
  /\ streams[i].pc = "none"
  /\ \A j \in Streams : j < i => streams[j].pc # "none"
  /\ \E script \in MetricsScripts :
       streams' = [streams EXCEPT ![i] =
                     [NoStream EXCEPT !.pc = "hdr", !.need = HEADER_SIZE,
                                      !.pend = script]]
  /\ UNCHANGED <<cfg, server, signal, conn, run, session, hs, ctl, domain, log,
                 closeSeen, events, codec, reader>>

MetricsInit ==
  /\ Quiet
  /\ codec = NoCodec
  /\ reader = NoReader

MetricsNext ==
  \/ RunCall
  \/ Abort
  \/ DialOk
  \/ CtlDeliver
  \/ SessionClose
  \/ SessionError
  \/ \E i \in Streams :
       \/ MetricsStreamOpen(i)
       \/ StreamDeliver(i)
       \/ StreamFin(i)
       \/ StreamError(i)

MetricsSpec == MetricsInit /\ [][MetricsNext]_vars

(***************************************************************************)
(* Properties                                                              *)
(***************************************************************************)
ServerBytes == FrameBytes(server)

ServerIsResponse(status) ==
  /\ validateHeader(server.hdr) = ""
  /\ server.hdr.type = MessageType.Response
  /\ server.payload[1] = status

\* every byte of the server's reply was read by the handshake
ReplyConsumed == conn # "none" /\ hs.pc # "idle" /\ ctl.consumed = Len(ServerBytes)

\* C1: after a handshake that ended with status OK, once the session has
\* reported close (handleConnection's close listener has run), run() is
\* resolved and not rejected.
C1_CloseResolvesRun == closeSeen => run.state = "resolved"

\* C2: once the shutdown signal is aborted after run() was called, the TLS
\* socket is destroyed and run() is settled.
C2_AbortDestroysAndSettles ==
  signal = "aborted" => conn = "destroyed" /\ run.state # "pending"

C2_Witness ==
  /\ signal = "aborted" /\ hs.pc = "wait" /\ session = "open"
  /\ conn = "destroyed" /\ run.state = "rejected"

C4_RejectedRegistration ==
  /\ (ServerIsResponse(StatusCode.NameTaken) /\ ReplyConsumed)
       => /\ "err: subdomain is already in use" \in log
          /\ domain = <<>>
          /\ hs.pc = "returned"
          /\ run.state = "resolved"
  /\ (ServerIsResponse(StatusCode.UnsupportedProto) /\ ReplyConsumed)
       => /\ "err: protocol is not supported" \in log
          /\ domain = <<>>
          /\ hs.pc = "returned"
          /\ run.state = "resolved"

C4_Witness ==
  /\ ServerIsResponse(StatusCode.NameTaken) /\ ReplyConsumed
  /\ run.state = "resolved" /\ domain = <<>>

\* the bytes of the reply that have arrived at the client
ReplyArrived == Len(ServerBytes) - Len(ctl.pend)

\* C5: if the first header on the control stream has type Error, run() fails
\* with "server error: " followed by the next `length` bytes decoded as UTF-8
\* as soon as those bytes have arrived; if its type is neither Response nor
\* Error, run() fails with the unexpected-type error having read 12 bytes.
C5_ErrorHeaderFailsRun ==
  (conn # "none" /\ hs.pc # "idle" /\ validateHeader(server.hdr) = "") =>
    /\ (server.hdr.type = MessageType.Error
        /\ ReplyArrived >= HEADER_SIZE + server.hdr.length)
         => /\ hs.pc = "threw"
            /\ run.state = "rejected" /\ run.kind = "server error"
            /\ run.text = Utf8Decode(SubSeq(ServerBytes, HEADER_SIZE + 1,
                                            HEADER_SIZE + server.hdr.length))
    /\ (server.hdr.type \notin {MessageType.Error, MessageType.Response}
        /\ ReplyArrived >= HEADER_SIZE)
         => /\ hs.pc = "threw"
            /\ ctl.consumed = HEADER_SIZE
            /\ run.state = "rejected" /\ run.kind = "unexpected header type"
            /\ run.text = <<server.hdr.type>>

\* C6: once the control stream is open the client has made exactly two
\* writes on it, the 12-byte header and then the serialized Request; the
\* header has type Request, the Request's byte length, and the METRICS flag
\* iff metrics is enabled.  Nothing is read before.
C6_RequestOnTheWire ==
  /\ hs.pc = "idle" => ctl.out = <<>> /\ ctl.consumed = 0
  /\ hs.pc # "idle" =>
       /\ Len(ctl.out) = 2
       /\ Len(ctl.out[1]) = HEADER_SIZE
       /\ ctl.out[1][1] = VERSION
       /\ ctl.out[1][2] = MessageType.Request
       /\ ctl.out[1][3] = (IF cfg.metrics THEN FLAG_METRICS ELSE 0)
       /\ GetBE(SubSeq(ctl.out[1], 4, 11)) = Len(ctl.out[2])
       /\ ctl.out[1][12] = 0
       /\ ctl.out[2] = <<cfg.proto>> \o PutBE(ByteLength(cfg.name), 4)
                         \o Utf8Encode(cfg.name)

C6_Witness ==
  /\ hs.pc = "hdr" /\ cfg.metrics /\ ctl.consumed = 0
  /\ ctl.out = << <<16, 1, 1, 0, 0, 0, 0, 0, 0, 0, 7, 0>>, <<2, 0, 0, 0, 2, 195, 169>> >>

\* C7: getDomain() is "" until a Response with status OK has been consumed
\* and is that Response's domain ("xé") in every state after it.
C7_DomainAssignedOnce ==
  domain = IF ServerIsResponse(StatusCode.OK) /\ ReplyConsumed
           THEN <<120, 233>> ELSE <<>>

C7_Witness ==
  /\ domain = <<120, 233>> /\ hs.pc = "closed"
  /\ \E i \in Streams : streams[i].pc = "fwd" /\ streams[i].cleaned

AckBytes == <<16, 4, 0, 0, 0, 0, 0, 0, 0, 0, 0, 0>>

\* the first header arrived on stream i is a valid header of type Access
AccessHeaderArrived(i) ==
  /\ Len(streams[i].arrived) >= HEADER_SIZE
  /\ deserializeHeader(Take(streams[i].arrived, HEADER_SIZE)).ok
  /\ streams[i].arrived[2] = MessageType.Access

\* C8: on a stream whose first header is Access the client writes exactly
\* one Ack header (type Ack, length 0); it is on the stream before the local
\* dial starts and before any byte of the local target.
C8_AckBeforeDial ==
  \A i \in Streams :
    /\ AccessHeaderArrived(i) =>
         /\ streams[i].pc = "fwd"
         /\ streams[i].acks = 1
         /\ Take(streams[i].out, HEADER_SIZE) = AckBytes
         /\ streams[i].dialOut = HEADER_SIZE
         /\ IsPrefix(Drop(streams[i].out, HEADER_SIZE), streams[i].lsent)
    /\ streams[i].local # "none" => AccessHeaderArrived(i)

C8_Witness ==
  \E i \in Streams :
    /\ AccessHeaderArrived(i)
    /\ streams[i].out = AckBytes \o LocalData

\* nothing has torn the pair of stream i down
Undisturbed(i) ==
  /\ ~streams[i].cleaned /\ ~streams[i].closed /\ streams[i].st = "open"
  /\ streams[i].local \in {"connecting", "open"}

C10_ClosedTogether ==
  \A i \in Streams : streams[i].cleaned =>
    /\ streams[i].closed
    /\ streams[i].local \notin {"connecting", "open", "halfClosed"}

\* stream i emits "error" in this step
StreamErrored(i) == streams[i].st = "open" /\ streams'[i].st = "errored"

\* the local connection of forwarder i emits "error" in this step (also a
\* failed dial)
LocalErrored(i) ==
  /\ streams[i].local \in {"connecting", "open", "halfClosed"}
  /\ streams'[i].local = "errored"

\* the step leaves the session, the socket, the signal and run() as they
\* were, leaves every stream but i as it was, and has cleaned forwarder i up
ErrorStaysLocal(i) ==
  /\ UNCHANGED <<session, conn, signal, run, hs, closeSeen, domain>>
  /\ \A j \in Streams \ {i} : streams'[j] = streams[j]
  /\ streams'[i].cleaned /\ streams'[i].closed
  /\ ~streams[i].cleaned => streams'[i].task = "rejected"

\* after the step neither half of forwarder i is open or half-open
PairTornDown(i) ==
  /\ streams'[i].closed
  /\ streams'[i].local \notin {"connecting", "open", "halfClosed"}

\* C11: an error on an Access stream or on its local connection, a failed
\* dial included, never closes the session and never settles run(); it
\* tears down that forwarder's pair and nothing else: every other stream is
\* left as it was.
C11_ErrorTearsDownPairOnly ==
  [][\A i \in Streams :
       (streams[i].pc = "fwd" /\ (StreamErrored(i) \/ LocalErrored(i)))
         => ErrorStaysLocal(i) /\ PairTornDown(i)]_vars

\* the part of C11 that does not depend on how much of the pair is torn
\* down: the error stays local to its forwarder
ErrorsStayLocal ==
  [][\A i \in Streams :
       (streams[i].pc = "fwd" /\ (StreamErrored(i) \/ LocalErrored(i)))
         => ErrorStaysLocal(i)]_vars

\* an errored forwarder beside one that goes on forwarding
TwoForwarders ==
  \E i \in Streams : \E j \in Streams \ {i} :
    /\ streams[i].pc = "fwd" /\ streams[i].local = "errored"
    /\ streams[i].task = "rejected" /\ streams[i].toLocal = <<>>
    /\ streams[j].pc = "fwd" /\ ~streams[j].cleaned
    /\ streams[j].toLocal = AccessData /\ streams[j].out = AckBytes \o LocalData
    /\ session = "open" /\ conn = "open" /\ run.state = "pending" /\ hs.pc = "wait"

\* the Metrics records of the frames the server sends on a metrics stream
MetricsSent ==
  <<NewMetrics(1, 2, 3, 4, 5), NewMetrics(6, 7, 8, 9, 10), NewMetrics(11, 12, 13, 14, 15)>>

\* the first header arrived on stream i is a valid header of type Metrics
MetricsHeaderArrived(i) ==
  /\ Len(streams[i].arrived) >= HEADER_SIZE
  /\ deserializeHeader(Take(streams[i].arrived, HEADER_SIZE)).ok
  /\ streams[i].arrived[2] = MessageType.Metrics

\* the frames of stream i that have arrived whole
FramesArrived(i) == Len(streams[i].arrived) \div (HEADER_SIZE + METRICS_SIZE)

MetricsStreams == {i \in Streams : MetricsHeaderArrived(i)}

\* C12: with one metrics stream, the "metrics" events emitted so far are, in
\* frame order and once each, the records of the frames that have arrived
\* whole, each with the five values of its frame; without a metrics stream
\* no event is emitted.
C12_OneEventPerFrame ==
  /\ MetricsStreams = {} => events = <<>>
  /\ \A i \in Streams :
       MetricsStreams = {i} => events = Take(MetricsSent, FramesArrived(i))

C12_Witness ==
  \E i \in Streams :
    /\ MetricsStreams = {i} /\ FramesArrived(i) = 3
    /\ events = MetricsSent
    /\ streams[i].pc = "mHdr" /\ streams[i].buf = <<>> /\ ~streams[i].closed

\* the value the deserializer returned
Decoded ==
  IF codec.kind = "header" THEN codec.de.header
  ELSE IF codec.kind = "request" THEN codec.de.req
  ELSE IF codec.kind = "response" THEN codec.de.resp
  ELSE codec.de.metrics

RoundTripKinds == {"header", "request", "response", "metrics"}

Bit(n, b) == (n \div (2 ^ b)) % 2

FlagBits == 0..7

\* two consecutive calls on the header: the k-th is op2, the one before op1
Consecutive(k, op1, op2) ==
  /\ k > 1 /\ k <= Len(codec.calls)
  /\ codec.calls[k - 1].op = op1 /\ codec.calls[k].op = op2

\* setFlag twice equals setFlag once
SetIdempotent ==
  \A k \in 1..Len(codec.calls) :
    Consecutive(k, "set", "set") => codec.calls[k].after = codec.calls[k - 1].after

\* hasFlag(mask) is true exactly when flags and mask share a bit
HasAgrees ==
  \A k \in 1..Len(codec.calls) :
    codec.calls[k].has
      <=> \E b \in FlagBits : Bit(codec.calls[k].after, b) = 1 /\ Bit(codec.mask, b) = 1

\* C14 as claimed: setFlag is idempotent, clearFlag after setFlag returns the
\* flags to the value they had before the setFlag, and hasFlag agrees with
\* the bitmask.
C14_ClearRestoresPrior ==
  codec.kind = "flags" =>
    /\ SetIdempotent
    /\ HasAgrees
    /\ \A k \in 1..Len(codec.calls) :
         Consecutive(k, "set", "clear")
           => codec.calls[k].after = codec.calls[k - 1].before

\* C14, amended: setFlag is idempotent, hasFlag agrees with the bitmask, and
\* clearFlag after setFlag leaves the flags they had before the setFlag with
\* the bits of the mask cleared: the prior value exactly when none of the
\* mask's bits was set before.
C14_ClearClearsMask ==
  codec.kind = "flags" =>
    /\ SetIdempotent
    /\ HasAgrees
    /\ \A k \in 1..Len(codec.calls) :
         Consecutive(k, "set", "clear") =>
           /\ \A b \in FlagBits :
                Bit(codec.calls[k].after, b)
                  = IF Bit(codec.mask, b) = 1 THEN 0 ELSE Bit(codec.calls[k - 1].before, b)
           /\ codec.calls[k].after < 256
           /\ (codec.calls[k].after = codec.calls[k - 1].before)
                <=> \A b \in FlagBits :
                      Bit(codec.mask, b) = 1 => Bit(codec.calls[k - 1].before, b) = 0

C14_Witness ==
  /\ codec.kind = "flags" /\ codec.mask = 3 /\ Len(codec.calls) = 3
  /\ codec.calls[1] = [op |-> "set", before |-> 5, after |-> 7, has |-> TRUE]
  /\ codec.calls[2] = [op |-> "set", before |-> 7, after |-> 7, has |-> TRUE]
  /\ codec.calls[3] = [op |-> "clear", before |-> 7, after |-> 4, has |-> FALSE]

\* the bytes the peer sends in all, and whether readN has been called and
\* every event that is due has been handled
PeerBytes == Take(PeerData, reader.arrived + Len(reader.pend))

ReadSettledDown == reader.state # "none" /\ ~reader.readable /\ ~reader.endDue

\* what readN(stream, n) owes its caller
ReadContract ==
  \* nothing is lost, duplicated or reordered, and no byte beyond the n-th
  \* leaves the stream
  /\ reader.acc \o reader.sbuf \o reader.pend = PeerBytes
  /\ Len(reader.acc) <= reader.n
  \* it resolves with the first n bytes
  /\ reader.state = "resolved" =>
       /\ reader.result = Take(PeerData, reader.n)
       /\ Len(reader.result) = reader.n
       /\ reader.sbuf \o reader.pend = Drop(PeerBytes, reader.n)
  \* it fails only when the stream ended short, with the EOF error
  /\ reader.state = "rejected" =>
       /\ reader.ended /\ reader.arrived < reader.n
       /\ reader.err = EOF_MESSAGE
  \* it is still pending only while bytes are missing and the stream is open
  /\ (reader.state = "pending" /\ ReadSettledDown) =>
       reader.arrived < reader.n /\ ~reader.ended

\* C15: readN(stream, N) resolves with exactly the first N bytes, in order,
\* for every split into chunks, consumes no byte beyond the N-th, and fails
\* with the EOF error if the stream ends after K < N bytes.
C15_ReadExactlyN == reader.state # "none" => ReadContract

\* the same for N > 0 only
ReadPositiveN == (reader.state # "none" /\ reader.n > 0) => ReadContract

\* three bytes read out of four that arrived in more than one chunk
ReadAcrossChunks ==
  /\ reader.n = 3 /\ reader.state = "resolved" /\ reader.arrived = 4
  /\ reader.result = <<11, 12, 13>> /\ reader.sbuf = <<14>>

\* the stream ended after two bytes of three
ReadShort ==
  /\ reader.n = 3 /\ reader.state = "rejected" /\ reader.arrived = 2
  /\ reader.acc = <<11, 12>>

\* serializeRequest has been applied to a Request whose nameLength differs
\* from the UTF-8 byte length of its name
MismatchSerialized ==
  /\ codec.kind = "request" /\ codec.pc # "in"
  /\ codec.x.nameLength # Len(Utf8Encode(codec.x.name))

\* C16 as claimed: serializeRequest of a Request whose nameLength differs
\* from the UTF-8 byte length of its name fails with "invalid length field",
\* for every such pair.
C16_MismatchIsLengthError ==
  MismatchSerialized =>
    ~codec.ser.ok /\ codec.ser.err = "invalid length field"

\* C16, amended: such a Request is never serialized; the error is "invalid
\* protocol" when proto is neither HTTP nor TCP, otherwise "string field
\* cannot be empty" when the name is empty or nameLength is 0, and "invalid
\* length field" in every other case.
C16_MismatchFails ==
  MismatchSerialized =>
    /\ ~codec.ser.ok /\ codec.ser.bytes = <<>>
    /\ codec.ser.err =
         IF codec.x.proto \notin {ProtoType.HTTP, ProtoType.TCP} THEN "invalid protocol"
         ELSE IF codec.x.name = <<>> \/ codec.x.nameLength = 0
              THEN "string field cannot be empty"
              ELSE "invalid length field"

\* the name is one code point of two bytes and nameLength says 1
C16_Witness ==
  /\ MismatchSerialized
  /\ codec.x.proto = ProtoType.HTTP /\ codec.x.name = <<233>> /\ codec.x.nameLength = 1
  /\ codec.ser.err = "invalid length field"

\* the three invariants of a header, in the numbers of the wire format
HeaderAcceptable(h) == h.version = 16 /\ h.length <= 1048576 /\ h.reserved = 0

\* the error names a fault the header has
ErrorFits(err, h) ==
  \/ err = "invalid version" /\ h.version # 16
  \/ err = "payload too large" /\ h.length > 1048576
  \/ err = "reserved field must be zero" /\ h.reserved # 0

\* C17: serializeHeader and deserializeHeader reject exactly the headers with
\* version other than 0x10, length above 1048576 or reserved other than 0,
\* each with an error naming such a fault, accept every other header (length
\* 1048576 included), and return nothing for a rejected header.
C17_HeaderValidation ==
  codec.kind = "header" =>
    /\ codec.pc \in {"ser", "de"} =>
         IF HeaderAcceptable(codec.x)
         THEN codec.ser.ok /\ Len(codec.ser.bytes) = 12
         ELSE ~codec.ser.ok /\ codec.ser.bytes = <<>> /\ ErrorFits(codec.ser.err, codec.x)
    /\ codec.pc = "de" =>
         IF HeaderAcceptable(codec.x)
         THEN codec.de.ok /\ codec.de.header.length = codec.x.length
         ELSE ~codec.de.ok /\ codec.de.header = NoHeader /\ ErrorFits(codec.de.err, codec.x)

\* a header at the limit went through both functions
C17_Witness ==
  /\ codec.kind = "header" /\ codec.pc = "de"
  /\ codec.x.version = 16 /\ codec.x.length = 1048576 /\ codec.x.reserved = 0
  /\ codec.ser.ok /\ codec.de.ok

\* a header above the limit was refused by both
HeaderRefused ==
  /\ codec.kind = "header" /\ codec.pc = "de"
  /\ codec.x.version = 16 /\ codec.x.length = 1048577 /\ codec.x.reserved = 0
  /\ codec.ser.err = "payload too large" /\ codec.de.err = "payload too large"

\* the type byte of the first header of stream record t
FirstType(t) == t.arrived[2]

\* in this step the dispatcher gets the first header of stream i, a valid one
Dispatched(i) ==
  /\ streams[i].pc = "hdr" /\ streams'[i].pc # "hdr"
  /\ Len(streams'[i].arrived) >= 12
  /\ deserializeHeader(Take(streams'[i].arrived, 12)).ok

SessionUntouched ==
  /\ session' = session /\ conn' = conn /\ run' = run /\ signal' = signal

\* what the step leaves by the type of the header
DispatchOutcome(i) ==
  LET t == streams'[i] IN
  /\ \A j \in Streams : j # i => streams'[j] = streams[j]
  /\ CASE FirstType(t) = MessageType.Access ->
            /\ t.pc = "fwd" /\ t.task = "pending" /\ t.local = "connecting"
            /\ t.acks = 1 /\ ~t.closed
            /\ t.buf = Drop(t.arrived, 12)
            /\ SessionUntouched
       [] FirstType(t) = MessageType.Metrics ->
            /\ t.pc \in {"mBody", "mHdr"} /\ t.task = "none" /\ t.local = "none"
            /\ t.acks = 0 /\ ~t.closed
            /\ SessionUntouched
       [] FirstType(t) = MessageType.End ->
            /\ t.pc = "done" /\ t.closed /\ t.task = "none" /\ t.local = "none"
            /\ t.buf = Drop(t.arrived, 12)
            /\ "inf: tunnel timed out" \in log'
            /\ session' = "closed"
       [] OTHER ->
            /\ t.pc = "done" /\ t.closed /\ t.task = "none" /\ t.local = "none"
            /\ t.acks = 0
            /\ t.buf = Drop(t.arrived, 12)
            /\ "inf: tunnel timed out" \in log' <=> "inf: tunnel timed out" \in log
            /\ SessionUntouched

\* C18: the dispatcher reads one header per inbound stream and acts by its
\* type: Access starts one forwarder on the stream, Metrics starts the metrics
\* consumer, End closes the stream and the session, any other type closes
\* that stream only; no other stream is touched, and the dispatcher never
\* reads a second header.
C18_DispatchByType ==
  [][\A i \in Streams :
       /\ Dispatched(i) => DispatchOutcome(i)
       /\ streams[i].pc \notin {"none", "hdr"} => streams'[i].pc # "hdr"]_vars

\* stream 1 carried an unexpected type and is closed while the session is open
\* and stream 2 is forwarding
C18_Witness ==
  /\ session = "open"
  /\ streams[1].pc = "done" /\ streams[1].closed
  /\ Len(streams[1].arrived) = 12 /\ streams[1].arrived[2] = MessageType.Ack
  /\ streams[2].pc = "fwd" /\ streams[2].local = "open" /\ streams[2].acks = 1

HeaderErrorLine == "console.error: failed to read stream header"

\* in this step the peer ends stream i while its first header is being read
PeerEndedHeader(i) ==
  /\ streams[i].pc = "hdr" /\ ~streams[i].fin
  /\ streams'[i].fin /\ Len(streams'[i].arrived) < 12

\* in this step the first header of stream i is read and refused
InvalidHeaderRead(i) ==
  /\ streams[i].pc = "hdr" /\ streams'[i].pc = "done"
  /\ Len(streams'[i].arrived) >= 12
  /\ ~deserializeHeader(Take(streams'[i].arrived, 12)).ok

\* refused headers are logged as errors and their stream closed
RefusedHeadersLogged ==
  [][\A i \in Streams :
       InvalidHeaderRead(i) => streams'[i].closed /\ HeaderErrorLine \in log']_vars

\* C19: a first-header read that fails because the peer ended the stream
\* before 12 bytes arrived is swallowed without an error-level log and the
\* stream is closed; a header that is refused is logged as an error and the
\* stream is closed.
C19_PeerEndSwallowed ==
  [][\A i \in Streams :
       /\ PeerEndedHeader(i) => streams'[i].closed /\ HeaderErrorLine \notin log'
       /\ InvalidHeaderRead(i) => streams'[i].closed /\ HeaderErrorLine \in log']_vars

\* the stream of three bytes was ended by the peer and is closed
ShortStreamClosed ==
  \E i \in Streams :
    /\ streams[i].arrived = <<16, 3, 0>> /\ streams[i].fin
    /\ streams[i].pc = "done" /\ streams[i].closed

\* this step is an "error" event of the stream or of localConn of forwarder i
ErrorEvent(i) ==
  \/ streams[i].st = "open" /\ streams'[i].st = "errored"
  \/ streams[i].local # "errored" /\ streams'[i].local = "errored"

\* C20: in a forwarder the body of cleanup runs at most once; the event that
\* triggers it decides the task (rejected if it is an error event, resolved
\* otherwise); no later event changes the task or runs the body again.
C20_SingleShotTeardown ==
  [][\A i \in Streams :
       LET s == streams[i]
           t == streams'[i]
       IN /\ t.cleanups <= 1
          /\ s.cleaned =>
               /\ t.cleaned /\ t.cleanups = s.cleanups
               /\ t.task = s.task /\ t.closed = s.closed /\ t.out = s.out
          /\ (s.pc = "fwd" /\ ~s.cleaned /\ t.cleaned) =>
               /\ t.cleanups = 1 /\ t.closed
               /\ t.task = IF ErrorEvent(i) THEN "rejected" ELSE "resolved"]_vars

\* a forwarder that completed normally and whose stream emitted "error" later
C20_Witness ==
  \E i \in Streams :
    /\ streams[i].pc = "fwd" /\ streams[i].cleaned /\ streams[i].cleanups = 1
    /\ streams[i].task = "resolved"
    /\ streams[i].st = "errored" /\ streams[i].local = "closed"

\* a forwarder that failed with the first error and saw more events later
FirstErrorKept ==
  \E i \in Streams :
    /\ streams[i].pc = "fwd" /\ streams[i].cleanups = 1
    /\ streams[i].task = "rejected"
    /\ streams[i].st = "closed" /\ streams[i].local = "closed"

\* the client has read the whole Response of the handshake
ResponseConsumed ==
  /\ validateHeader(server.hdr) = "" /\ server.hdr.type = MessageType.Response
  /\ ReplyConsumed

\* the dispatcher has classified stream i, or acknowledged or dialled for it
DispatcherActed(i) ==
  \/ streams[i].pc \notin {"none", "hdr"}
  \/ streams[i].acks > 0
  \/ streams[i].local # "none"

\* C22: no inbound stream is classified, acknowledged or forwarded before the
\* client has consumed the Response on the control stream.
C22_HandshakeFirst ==
  \A i \in Streams : DispatcherActed(i) => ResponseConsumed

\* a forwarder dialled while the handshake was still reading the reply's header
EarlyForwarder ==
  \E i \in Streams :
    /\ hs.pc = "hdr" /\ ctl.consumed = 0
    /\ streams[i].pc = "fwd" /\ streams[i].acks = 1 /\ streams[i].local = "open"

\* handleConnection has returned or thrown without a registration
RegistrationFailed == hs.pc \in {"returned", "threw"} /\ domain = <<>>

\* C23: whenever run() has settled without a successful registration, the
\* session and the TLS socket have been closed, so no inbound stream can be
\* dispatched or forwarded afterwards.
C23_ClosedAfterFailure ==
  (run.state # "pending" /\ RegistrationFailed) =>
    /\ session # "open" /\ conn # "open"
    /\ \A i \in Streams : ~Live(i)

\* a stream accepts bytes after run() resolved on a NameTaken reply
LiveAfterNameTaken ==
  \E i \in Streams :
    /\ ServerIsResponse(StatusCode.NameTaken) /\ ReplyConsumed
    /\ run.state = "resolved" /\ hs.pc = "returned"
    /\ Live(i) /\ streams[i].pc = "fwd" /\ streams[i].toLocal # <<>>

\* a stream accepts bytes after run() failed with a server error
LiveAfterServerError ==
  \E i \in Streams :
    /\ run.state = "rejected" /\ run.kind = "server error"
    /\ hs.pc = "threw" /\ conn = "open" /\ session = "open"
    /\ Live(i)

\* the first header of stream record t is a valid header of type Metrics
OnMetricsStream(t) ==
  /\ Len(t.arrived) >= HEADER_SIZE
  /\ deserializeHeader(Take(t.arrived, HEADER_SIZE)).ok
  /\ t.arrived[2] = MessageType.Metrics

\* b, a sequence of frames from a frame boundary on, holds a header that is
\* refused or a body that was read whole and is too short for a Metrics
\* record.  A body of length 0 is never read whole (readN(stream, 0) stays
\* pending), so the frames behind it are not looked at.
RECURSIVE FrameFault(_)
FrameFault(b) ==
  IF Len(b) < HEADER_SIZE THEN FALSE
  ELSE LET d == deserializeHeader(Take(b, HEADER_SIZE)) IN
    IF ~d.ok THEN TRUE
    ELSE IF d.header.length = 0 \/ Len(b) < HEADER_SIZE + d.header.length THEN FALSE
    ELSE IF d.header.length < METRICS_SIZE THEN TRUE
    ELSE FrameFault(Drop(b, HEADER_SIZE + d.header.length))

\* C21: the loop of the metrics consumer ends exactly when its stream has
\* reached EOF, a read has failed or a frame could not be decoded; once ended
\* the stream is closed; no step of a metrics stream closes the session,
\* touches the socket or the signal, or settles run().
C21_MetricsLoopEnds ==
  [][\A i \in Streams :
       (OnMetricsStream(streams'[i]) /\ streams'[i] # streams[i]) =>
         LET t == streams'[i] IN
         /\ t.pc \in {"mBody", "mHdr", "done"}
         /\ t.pc = "done" <=> (t.fin \/ t.st = "errored" \/ FrameFault(t.arrived))
         /\ t.pc = "done" => t.closed
         /\ session' = session /\ conn' = conn /\ signal' = signal
         /\ run' = run /\ hs' = hs /\ closeSeen' = closeSeen]_vars

\* the loop ended on a body too short to decode, after one event, with the
\* session up and run() pending
C21_Witness ==
  \E i \in Streams :
    /\ OnMetricsStream(streams[i]) /\ streams[i].pc = "done" /\ streams[i].closed
    /\ ~streams[i].fin /\ streams[i].st = "open"
    /\ Len(streams[i].arrived) = 2 * HEADER_SIZE + METRICS_SIZE + Len(ShortBody)
    /\ events = <<NewMetrics(1, 2, 3, 4, 5)>>
    /\ session = "open" /\ conn = "open" /\ run.state = "pending" /\ hs.pc = "wait"

\* the loop ended on the peer's end of the stream
MetricsLoopEof ==
  \E i \in Streams :
    /\ OnMetricsStream(streams[i]) /\ streams[i].pc = "done" /\ streams[i].closed
    /\ streams[i].fin /\ Len(events) = 2
    /\ session = "open" /\ run.state = "pending"

\* the loop ended on an error of the stream
MetricsLoopError ==
  \E i \in Streams :
    /\ OnMetricsStream(streams[i]) /\ streams[i].pc = "done" /\ streams[i].closed
    /\ streams[i].st = "errored"
    /\ session = "open" /\ run.state = "pending"

\* the records of the leading frames of b whose header is valid and of type
\* Metrics and whose body has arrived whole and decodes
RECURSIVE MetricsTypedRecords(_)
MetricsTypedRecords(b) ==
  IF Len(b) < HEADER_SIZE THEN <<>>
  ELSE LET d == deserializeHeader(Take(b, HEADER_SIZE)) IN
    IF ~d.ok \/ d.header.type # MessageType.Metrics THEN <<>>
    ELSE IF d.header.length < METRICS_SIZE \/ Len(b) < HEADER_SIZE + d.header.length
    THEN <<>>
    ELSE <<deserializeMetrics(SubSeq(b, HEADER_SIZE + 1,
                                     HEADER_SIZE + d.header.length)).metrics>>
           \o MetricsTypedRecords(Drop(b, HEADER_SIZE + d.header.length))

\* C24: on a metrics stream a "metrics" event is emitted only for frames
\* whose header type is Metrics; a later frame of another type is never
\* published as a metrics record.
C24_OnlyMetricsFrames ==
  \A i \in Streams :
    OnMetricsStream(streams[i]) =>
      IsPrefix(events, MetricsTypedRecords(streams[i].arrived))

\* the body of a frame of type End was published as the second record
EndFramePublished ==
  \E i \in Streams :
    /\ OnMetricsStream(streams[i])
    /\ Len(streams[i].arrived) = 2 * (HEADER_SIZE + METRICS_SIZE)
    /\ streams[i].arrived[HEADER_SIZE + METRICS_SIZE + 2] = MessageType.End
    /\ events = <<NewMetrics(1, 2, 3, 4, 5), NewMetrics(6, 7, 8, 9, 10)>>

\* the server's reply is a valid Error header that declares length 0, and
\* the header has arrived
EmptyErrorArrived ==
  /\ conn # "none" /\ hs.pc # "idle"
  /\ validateHeader(server.hdr) = ""
  /\ server.hdr.type = MessageType.Error /\ server.hdr.length = 0
  /\ ReplyArrived >= HEADER_SIZE

\* C25: a header that declares length 0 does not stall the client: once an
\* Error header with length 0 has arrived on the control stream, run() has
\* failed with "server error: " and an empty body, without waiting for more
\* data or for the end of the stream.
C25_ZeroLengthNoStall ==
  EmptyErrorArrived =>
    /\ hs.pc = "threw"
    /\ run.state = "rejected" /\ run.kind = "server error" /\ run.text = <<>>

\* the handshake waits for a body of 0 bytes
EmptyErrorStalled ==
  /\ EmptyErrorArrived /\ hs.pc = "errBody" /\ hs.need = 0
  /\ run.state = "pending" /\ ctl.pend = <<>> /\ ~ctl.fin

\* readN(stream, 0) resolves with an empty buffer as soon as it is called
\* (does not hold of readN)
ZeroReadResolves ==
  (reader.n = 0 /\ reader.state # "none") =>
    reader.state = "resolved" /\ reader.result = <<>>

====
